---- MODULE Spec2Model ----
(***************************************************************************)
(* State-machine model of the clinic dashboard's storage wrapper           *)
(* (assets/scripts/core/database.js, class DatabaseService) as configured  *)
(* by the application shell (assets/scripts/app.js, initCoreModules).      *)
(*                                                                         *)
(* The wrapper is a pass-through to the browser's IndexedDB.  Every        *)
(* wrapper method opens its own transaction on one object store and places *)
(* one request in it; the request is executed later, by the browser, and   *)
(* its success/error event settles the promise the method returned.  The   *)
(* model keeps the requests that were placed and not yet executed in       *)
(* `queue`; requests on the same store execute in the order they were      *)
(* placed, requests on different stores in any order.                      *)
(***************************************************************************)
EXTENDS Integers, Sequences, FiniteSets, TLC

(***************************************************************************)
(* Bounds of the model.                                                    *)
(***************************************************************************)
\* doctor and patient ids are 1..MaxId (they stand for the opaque string ids,
\* in key order)
MaxId == 2
\* appointment ids are 1..MaxApptId
MaxApptId == 1
\* a caller-built saveAll / import bundle holds at most MaxBatch records
MaxBatch == 2
\* at most MaxSaves saveData() calls of the shell are in progress at a time
MaxSaves == 1
\* the shell holds at most MaxNotifications notifications
MaxNotifications == 3

(***************************************************************************)
(* Configuration handed to the wrapper by the shell.                       *)
(***************************************************************************)
\* config.version
DbVersion == 2

\* config.stores[*].name, in the order of the configuration
StoreNames == <<"doctors", "patients", "appointments">>

Stores == {StoreNames[i] : i \in 1..3}

\* variant: the phone index created with unique: false
UniqueIndexesNone(s) == {}

\* the indexes of a store that were created with unique: true
UniqueIndexes(s) == IF s = "patients" THEN {"phone"} ELSE {}

(***************************************************************************)
(* Records.  Every record has the key path `id`.  A patient's phone may be *)
(* missing (undefined): such a record has no entry in the phone index.     *)
(***************************************************************************)
Ids == 1..MaxId

Undefined == "undefined"

Phones == {"p1", "p2"}

Doctor == [id : Ids, isActive : BOOLEAN]

Patient == [id : Ids, phone : Phones \cup {Undefined}]

ApptIds == 1..MaxApptId

\* the calendar days of appointments and of the clock
Dates == {"d1", "d2"}

\* an appointment has a date and a status and refers to a doctor and a patient
\* by id
Appointment ==
    {[id |-> i, date |-> "d1", status |-> "pending", doctorId |-> 1, patientId |-> 1] :
            i \in ApptIds}
        \cup {[id |-> i, date |-> "d2", status |-> "confirmed", doctorId |-> 2,
                patientId |-> 2] : i \in ApptIds}

\* the keys a caller passes for store s
Keys(s) == IF s = "appointments" THEN ApptIds ELSE Ids

Records(s) ==
    CASE s = "doctors" -> Doctor
      [] s = "patients" -> Patient
      [] s = "appointments" -> Appointment

\* the key of record r in index idx of store s, Undefined when r has none
IndexKey(s, idx, r) ==
    IF s = "patients" /\ idx = "phone" THEN r.phone ELSE Undefined

\* position of an index key in the index's key order
KeyRank(k) == CASE k = "p1" -> 1 [] k = "p2" -> 2 [] OTHER -> 0

(***************************************************************************)
(* The object store operations, as functions of a store's contents (a set  *)
(* of records with pairwise distinct ids).  Each yields whether the        *)
(* request succeeds and the contents afterwards; a request that fails      *)
(* aborts its own transaction and so leaves the contents as they were.     *)
(***************************************************************************)
HasKey(content, k) == \E r \in content : r.id = k

\* item would give a unique index of s a key that a record with another id holds
IndexConflict(s, content, item) ==
    \E idx \in UniqueIndexes(s) : \E r \in content :
        /\ r.id # item.id
        /\ IndexKey(s, idx, item) # Undefined
        /\ IndexKey(s, idx, r) = IndexKey(s, idx, item)

\* variant: add that overwrites a record with the same id, as put does
StoreAddOverwrite(s, content, item) ==
    IF IndexConflict(s, content, item)
    THEN [ok |-> FALSE, content |-> content]
    ELSE [ok |-> TRUE,
          content |-> {r \in content : r.id # item.id} \cup {item}]

\* IDBObjectStore.add
StoreAdd(s, content, item) ==
    IF HasKey(content, item.id) \/ IndexConflict(s, content, item)
    THEN [ok |-> FALSE, content |-> content]
    ELSE [ok |-> TRUE, content |-> content \cup {item}]

\* variant: put that leaves the record it should replace in place
StorePutKeepOld(s, content, item) ==
    IF IndexConflict(s, content, item)
    THEN [ok |-> FALSE, content |-> content]
    ELSE [ok |-> TRUE, content |-> content \cup {item}]

\* variant: put that replaces the whole content of the store by the record
StorePutAlone(s, content, item) ==
    IF IndexConflict(s, content, item)
    THEN [ok |-> FALSE, content |-> content]
    ELSE [ok |-> TRUE, content |-> {item}]

\* variant: put that does not consult the unique indexes
StorePutUnchecked(s, content, item) ==
    [ok |-> TRUE, content |-> {r \in content : r.id # item.id} \cup {item}]

\* IDBObjectStore.put
StorePut(s, content, item) ==
    IF IndexConflict(s, content, item)
    THEN [ok |-> FALSE, content |-> content]
    ELSE [ok |-> TRUE,
          content |-> {r \in content : r.id # item.id} \cup {item}]

\* variant: delete that fails when no record has the key
StoreDeleteStrict(content, k) ==
    [ok |-> HasKey(content, k), content |-> {r \in content : r.id # k}]

\* IDBObjectStore.delete
StoreDelete(content, k) ==
    [ok |-> TRUE, content |-> {r \in content : r.id # k}]

\* variant: clear that removes the record with the lowest key only
StoreClearFirst(content) ==
    [ok |-> TRUE,
     content |-> {r \in content : \E q \in content : q.id < r.id}]

\* IDBObjectStore.clear
StoreClear(content) == [ok |-> TRUE, content |-> {}]

\* IDBObjectStore.get: the record with key k, or undefined
StoreGet(content, k) ==
    IF HasKey(content, k) THEN CHOOSE r \in content : r.id = k ELSE Undefined

RECURSIVE SortById(_)
\* the records of a set in ascending key order
SortById(S) ==
    IF S = {} THEN << >>
    ELSE LET m == CHOOSE r \in S : \A q \in S : r.id <= q.id
         IN  <<m>> \o SortById(S \ {m})

RECURSIVE SortByIndex(_, _, _)
\* the records of a set that have a key in index idx, in index-key order
SortByIndex(s, idx, S) ==
    LET T == {r \in S : IndexKey(s, idx, r) # Undefined}
    IN  IF T = {} THEN << >>
        ELSE LET m == CHOOSE r \in T : \A q \in T :
                        \/ KeyRank(IndexKey(s, idx, r)) < KeyRank(IndexKey(s, idx, q))
                        \/ /\ IndexKey(s, idx, r) = IndexKey(s, idx, q)
                           /\ r.id <= q.id
             IN  <<m>> \o SortByIndex(s, idx, T \ {m})

NoIndex == "null"

\* variant: getAll that always reads through the phone index
StoreGetAllIndexed(s, content, idx) == SortByIndex(s, "phone", content)

\* IDBObjectStore.getAll / IDBIndex.getAll
StoreGetAll(s, content, idx) ==
    IF idx = NoIndex THEN SortById(content) ELSE SortByIndex(s, idx, content)

(***************************************************************************)
(* JSON text.  export() writes JSON.stringify(data, null, 2) and import()  *)
(* reads JSON.parse(text).  An object is written as the sequence of its    *)
(* <<name, token>> members; a member whose value is undefined is left out; *)
(* a parsed object that lacks a member reads undefined for it.             *)
(***************************************************************************)
Digits == <<"1", "2", "3", "4", "5", "6", "7", "8", "9">>

Timestamps == {"t1", "t2"}

\* the fields of the records of store s, in property order
Fields(s) ==
    CASE s = "doctors" -> <<"id", "isActive">>
      [] s = "patients" -> <<"id", "phone">>
      [] s = "appointments" -> <<"id", "date", "status", "doctorId", "patientId">>

\* the JSON token of field f of record r
Token(f, r) ==
    CASE f = "id" -> Digits[r.id]
      [] f = "isActive" -> IF r.isActive THEN "true" ELSE "false"
      [] f = "phone" -> r.phone
      [] f = "date" -> r.date
      [] f = "status" -> r.status
      [] f = "doctorId" -> Digits[r.doctorId]
      [] f = "patientId" -> Digits[r.patientId]

IsPresent(f, r) == IF f = "phone" THEN r.phone # Undefined ELSE TRUE

\* JSON.stringify of one record of store s
StringifyRecord(s, r) ==
    LET all == [i \in 1..Len(Fields(s)) |-> <<Fields(s)[i], Token(Fields(s)[i], r)>>]
    IN  SelectSeq(all, LAMBDA m : IsPresent(m[1], r))

\* the token of member f of a parsed object, Undefined when it has none
Member(obj, f) ==
    IF \E i \in 1..Len(obj) : obj[i][1] = f
    THEN obj[CHOOSE i \in 1..Len(obj) : obj[i][1] = f][2]
    ELSE Undefined

\* JSON.parse of one object, read as a record of store s
ParseRecord(s, obj) ==
    CASE s = "doctors" ->
            [id |-> CHOOSE n \in 1..Len(Digits) : Digits[n] = Member(obj, "id"),
             isActive |-> Member(obj, "isActive") = "true"]
      [] s = "patients" ->
            [id |-> CHOOSE n \in 1..Len(Digits) : Digits[n] = Member(obj, "id"),
             phone |-> Member(obj, "phone")]
      [] s = "appointments" ->
            [id |-> CHOOSE n \in 1..Len(Digits) : Digits[n] = Member(obj, "id"),
             date |-> Member(obj, "date"),
             status |-> Member(obj, "status"),
             doctorId |-> CHOOSE n \in 1..Len(Digits) : Digits[n] = Member(obj, "doctorId"),
             patientId |-> CHOOSE n \in 1..Len(Digits) : Digits[n] = Member(obj, "patientId")]

\* JSON.stringify of the export object (database.js, export)
Stringify(data, t) ==
    [doctors |-> [i \in 1..Len(data.doctors) |->
                      StringifyRecord("doctors", data.doctors[i])],
     patients |-> [i \in 1..Len(data.patients) |->
                      StringifyRecord("patients", data.patients[i])],
     appointments |-> [i \in 1..Len(data.appointments) |->
                      StringifyRecord("appointments", data.appointments[i])],
     exportedAt |-> t,
     version |-> Digits[DbVersion]]

\* a text that JSON.parse rejects with a SyntaxError
Garbage == [syntaxError |-> TRUE]

IsParseable(text) == "syntaxError" \notin DOMAIN text

\* JSON.parse of a bundle text (database.js, import)
Parse(text) ==
    [doctors |-> [i \in 1..Len(text.doctors) |->
                      ParseRecord("doctors", text.doctors[i])],
     patients |-> [i \in 1..Len(text.patients) |->
                      ParseRecord("patients", text.patients[i])],
     appointments |-> [i \in 1..Len(text.appointments) |->
                      ParseRecord("appointments", text.appointments[i])]]

(***************************************************************************)
(* Inputs.                                                                 *)
(***************************************************************************)
SeqsUpTo(S, n) == UNION {[1..k -> S] : k \in 0..n}

\* the data objects a caller passes to saveAll, and writes into a bundle
DataSet ==
    {d \in [doctors : SeqsUpTo(Doctor, MaxBatch),
            patients : SeqsUpTo(Patient, MaxBatch),
            appointments : SeqsUpTo(Appointment, MaxBatch)] :
        Len(d.doctors) + Len(d.patients) + Len(d.appointments) <= MaxBatch}

(***************************************************************************)
(* State.                                                                  *)
(***************************************************************************)
VARIABLES
    db,            \* DatabaseService.db: "null" until the open request succeeds
    opening,       \* TRUE while the open request of init() has not completed
    stores,        \* the contents of the three object stores
    queue,         \* the requests placed and not yet executed, oldest first
    call,          \* the wrapper call made last, and the state of its promise
    last,          \* the request executed by the latest step, with its outcome
    exported,      \* the bundle text the caller holds from an export()
    exportedFrom,  \* the store contents when that export() finished
    state,         \* ClinicProApp.state: the in-memory lists and notifications
    shown,         \* the summaries the page displays (textContent of the counters)
    shell,         \* the shell's position: init(), listeners, overlay, timer
    load,          \* the loadAppData() in progress
    saves,         \* the saveData() calls in progress
    today,         \* the calendar day of the browser's clock
    ev             \* what the latest step of the shell did

\* the variables of the application shell
shellVars == <<state, shown, shell, load, saves, today, ev>>

vars == <<db, opening, stores, queue, call, last, exported, exportedFrom,
          state, shown, shell, load, saves, today, ev>>

NoText == [none |-> TRUE]

NoRequest == [op |-> "none"]

NoCall ==
    [kind |-> "none", store |-> "none", arg |-> Undefined, status |-> "idle",
     result |-> Undefined, outcomes |-> << >>, acc |-> << >>, step |-> 0,
     wasEmpty |-> FALSE, stale |-> FALSE]

EmptyStores == [s \in Stores |-> {}]

\* a promise created by `new Promise(executor)` in a wrapper method, unsettled
NewCall(kind, s, arg) ==
    [kind |-> kind, store |-> s, arg |-> arg, status |-> "pending",
     result |-> Undefined, outcomes |-> << >>, acc |-> << >>, step |-> 0,
     wasEmpty |-> stores = EmptyStores, stale |-> FALSE]

\* `this.db.transaction(...)` with this.db = null throws inside the executor
Thrown(c) == [c EXCEPT !.status = "rejected", !.result = "TypeError"]

\* a request placed in its own transaction on store s
Request(op, s, arg, n) ==
    [op |-> op, store |-> s, arg |-> arg, n |-> n]

\* the elements of a sequence
Range(q) == {q[i] : i \in 1..Len(q)}

Remove(q, i) == SubSeq(q, 1, i - 1) \o SubSeq(q, i + 1, Len(q))

\* transactions on one store run in the order they were created
Ready(i) == \A j \in 1..(i - 1) : queue[j].store # queue[i].store

\* no call is in progress
Idle == call.status = "idle"

\* data[name] of a saveAll / import argument, empty when the member is missing
ArrayOf(data, name) == IF name \in DOMAIN data THEN data[name] ELSE << >>

\* variant: the loop over data.appointments is missing
BatchRequestsNoAppointments(op, data) ==
    LET d == ArrayOf(data, "doctors")
        p == ArrayOf(data, "patients")
    IN  [i \in 1..Len(d) |-> Request(op, "doctors", d[i], i)]
        \o [i \in 1..Len(p) |-> Request(op, "patients", p[i], Len(d) + i)]

\* the requests of `for (const x of data.<store>) promises.push(this.<op>(store, x))`
\* for the three stores in source order, numbered by their place in `promises`
BatchRequests(op, data) ==
    LET d == ArrayOf(data, "doctors")
        p == ArrayOf(data, "patients")
        a == ArrayOf(data, "appointments")
    IN  [i \in 1..Len(d) |-> Request(op, "doctors", d[i], i)]
        \o [i \in 1..Len(p) |-> Request(op, "patients", p[i], Len(d) + i)]
        \o [i \in 1..Len(a) |-> Request(op, "appointments", a[i], Len(d) + Len(p) + i)]

\* the constructor calls this.init() and drops the promise it returns: no
\* caller holds a promise that the failure of the open request rejects
InitPromiseHeld == FALSE

\* a saveAll argument with no record
NoData == [doctors |-> << >>, patients |-> << >>, appointments |-> << >>]

\* a saveData() slot that holds no call
NoSave == [left |-> 0, by |-> "none", data |-> NoData]

NoLoad == [by |-> "none", step |-> 0, placed |-> FALSE]

\* what a step of the shell did: the wrapper call it made and the value of
\* this.db when it made it, whether it wrote to console.error, the toast it
\* showed and whether it wrote the localStorage backup; `data` is the argument
\* of the saveAll that the step saw resolved
Event(kind, by, dbAtCall, logged, toast, backup) ==
    [kind |-> kind, by |-> by, db |-> dbAtCall, logged |-> logged,
     toast |-> toast, backup |-> backup, data |-> NoData]

NoEvent == Event("none", "none", "none", FALSE, "none", FALSE)

\* the page after `new ClinicProApp()`: the constructor has set this.state and
\* called init(), which has shown the overlay, constructed the DatabaseService
\* (whose constructor has called its init(): the open request is pending) and
\* is about to call loadAppData()
Constructed ==
    /\ db = "null"
    /\ opening = TRUE
    /\ queue = << >>
    /\ call = NoCall
    /\ last = NoRequest
    /\ exported = NoText
    /\ exportedFrom = EmptyStores
    /\ state = [doctors |-> << >>, patients |-> << >>, appointments |-> << >>,
                notifications |-> << >>]
    /\ shown = [rendered |-> FALSE, badged |-> FALSE, activeDoctors |-> 0,
                patients |-> 0, appointments |-> 0, todayAppointments |-> 0,
                pending |-> 0, unread |-> 0]
    /\ shell = [pc |-> "init", listeners |-> FALSE, overlay |-> TRUE, timer |-> FALSE]
    /\ load = [by |-> "init", step |-> 1, placed |-> FALSE]
    /\ saves = [k \in 1..MaxSaves |-> NoSave]
    /\ today = "d1"
    /\ ev = NoEvent

\* the first run of the page in a browser profile: the database is new
Init ==
    /\ stores = EmptyStores
    /\ Constructed

(***************************************************************************)
(* init(): the open request completes.                                     *)
(***************************************************************************)
\* request.onupgradeneeded (first run: the stores are created) and onsuccess
OpenSuccess ==
    /\ opening
    /\ opening' = FALSE
    /\ db' = "open"
    /\ UNCHANGED <<stores, queue, call, last, exported, exportedFrom, shellVars>>

\* request.onerror: this.db stays null
OpenError ==
    /\ opening
    /\ opening' = FALSE
    /\ UNCHANGED <<db, stores, queue, call, last, exported, exportedFrom, shellVars>>

(***************************************************************************)
(* The wrapper methods, up to the point where they return their promise.   *)
(* A caller makes its next call after the last one has returned to it.     *)
(***************************************************************************)
\* a caller that holds an exported bundle clears stores and imports the bundle,
\* and makes other calls after it has discarded the bundle
MayCall(kind, arg) ==
    \/ exported = NoText
    \/ kind = "clear"
    \/ kind = "import" /\ arg = exported

\* add, get, update, delete, clear, getAll: one transaction, one request
Single(kind, op, s, arg) ==
    /\ MayCall(kind, arg)
    /\ IF db = "open"
       THEN /\ call' = NewCall(kind, s, arg)
            /\ queue' = Append(queue, Request(op, s, arg, 1))
       ELSE /\ call' = Thrown(NewCall(kind, s, arg))
            /\ queue' = queue
    /\ UNCHANGED <<db, opening, stores, last, exported, exportedFrom, shellVars>>

Add == Idle /\ \E s \in Stores : \E item \in Records(s) : Single("add", "add", s, item)

Get == Idle /\ \E s \in Stores : \E k \in Keys(s) : Single("get", "get", s, k)

GetAll ==
    Idle /\ \E s \in Stores : \E idx \in {NoIndex} \cup UniqueIndexes(s) :
        Single("getAll", "getAll", s, idx)

Update == Idle /\ \E s \in Stores : \E item \in Records(s) : Single("update", "put", s, item)

Delete == Idle /\ \E s \in Stores : \E k \in Keys(s) : Single("delete", "delete", s, k)

Clear == Idle /\ \E s \in Stores : Single("clear", "clear", s, Undefined)

\* saveAll(data): every update is called before any of them completes
SaveAll ==
    Idle /\ \E data \in DataSet :
        LET reqs == BatchRequests("put", data)
            c == NewCall("saveAll", "none", data)
        IN  /\ MayCall("saveAll", data)
            /\ IF reqs = << >>
               THEN /\ call' = [c EXCEPT !.status = "resolved", !.result = << >>]
                    /\ queue' = queue
               ELSE IF db = "open"
               THEN /\ call' = [c EXCEPT !.outcomes = [i \in 1..Len(reqs) |-> "pending"]]
                    /\ queue' = queue \o reqs
               ELSE /\ call' = [Thrown(c) EXCEPT !.outcomes = [i \in 1..Len(reqs) |-> "err"]]
                    /\ queue' = queue
            /\ UNCHANGED <<db, opening, stores, last, exported, exportedFrom, shellVars>>

\* export(): up to the first await
Export ==
    /\ Idle
    /\ MayCall("export", Undefined)
    /\ IF db = "open"
       THEN /\ call' = [NewCall("export", "none", Undefined) EXCEPT !.step = 1]
            /\ queue' = Append(queue, Request("getAll", StoreNames[1], NoIndex, 1))
       ELSE /\ call' = Thrown(NewCall("export", "none", Undefined))
            /\ queue' = queue
    /\ UNCHANGED <<db, opening, stores, last, exported, exportedFrom, shellVars>>

\* the texts a caller passes to import
BundleTexts == {Stringify(d, "t1") : d \in DataSet}

ImportTexts ==
    IF exported = NoText THEN {Garbage} \cup BundleTexts ELSE {exported}

\* variant: import places the clear of the first store before it parses
ImportClearsBeforeParse ==
    Idle /\ \E text \in ImportTexts :
        LET c == [NewCall("import", "none", text) EXCEPT
                      !.stale = IsParseable(text) /\ \E s \in Stores :
                                    stores[s] \ Range(Parse(text)[s]) # {}]
        IN  /\ MayCall("import", text)
            /\ IF db = "open"
               THEN /\ call' = IF IsParseable(text)
                               THEN [c EXCEPT !.step = 1]
                               ELSE [c EXCEPT !.step = 3, !.status = "rejected",
                                              !.result = "SyntaxError"]
                    /\ queue' = Append(queue, Request("clear", StoreNames[1], Undefined, 1))
               ELSE /\ call' = Thrown(c)
                    /\ queue' = queue
            /\ UNCHANGED <<db, opening, stores, last, exported, exportedFrom, shellVars>>

\* import(jsonData): JSON.parse, then up to the first await
Import ==
    Idle /\ \E text \in ImportTexts :
        LET c == [NewCall("import", "none", text) EXCEPT
                      !.stale = IsParseable(text) /\ \E s \in Stores :
                                    stores[s] \ Range(Parse(text)[s]) # {}]
        IN  /\ MayCall("import", text)
            /\ IF ~IsParseable(text)
               THEN /\ call' = [c EXCEPT !.status = "rejected", !.result = "SyntaxError"]
                    /\ queue' = queue
               ELSE IF db = "open"
               THEN /\ call' = [c EXCEPT !.step = 1]
                    /\ queue' = Append(queue, Request("clear", StoreNames[1], Undefined, 1))
               ELSE /\ call' = Thrown(c)
                    /\ queue' = queue
            /\ UNCHANGED <<db, opening, stores, last, exported, exportedFrom, shellVars>>

(***************************************************************************)
(* The browser executes a request and fires its success or error event;    *)
(* the handler settles the promise, and the code awaiting it runs on.      *)
(***************************************************************************)
\* what executing request req does to its store, and the request's result
Outcome(req) ==
    LET content == stores[req.store]
    IN  CASE req.op = "add" ->
                LET r == StoreAdd(req.store, content, req.arg)
                IN  [ok |-> r.ok, content |-> r.content, value |-> req.arg.id]
          [] req.op = "put" ->
                LET r == StorePut(req.store, content, req.arg)
                IN  [ok |-> r.ok, content |-> r.content, value |-> req.arg.id]
          [] req.op = "delete" ->
                LET r == StoreDelete(content, req.arg)
                IN  [ok |-> r.ok, content |-> r.content, value |-> Undefined]
          [] req.op = "clear" ->
                LET r == StoreClear(content)
                IN  [ok |-> r.ok, content |-> r.content, value |-> Undefined]
          [] req.op = "get" ->
                [ok |-> TRUE, content |-> content, value |-> StoreGet(content, req.arg)]
          [] req.op = "getAll" ->
                [ok |-> TRUE, content |-> content,
                 value |-> StoreGetAll(req.store, content, req.arg)]

\* request.onsuccess / request.onerror of a single-request method
SettleSingle(c, ok, value) ==
    [call |-> [c EXCEPT !.status = IF ok THEN "resolved" ELSE "rejected",
                        !.result = IF ok THEN value ELSE "ConstraintError"],
     more |-> << >>]

\* Promise.all(promises): rejects with the first rejection, resolves with the
\* array of results once every promise has resolved
SettleAll(c, reqs, n, ok) ==
    LET outs == [c.outcomes EXCEPT ![n] = IF ok THEN "ok" ELSE "err"]
        status == IF c.status # "pending" THEN c.status
                  ELSE IF ~ok THEN "rejected"
                  ELSE IF \A i \in 1..Len(outs) : outs[i] = "ok" THEN "resolved"
                  ELSE "pending"
        result == IF c.status # "pending" THEN c.result
                  ELSE IF status = "rejected" THEN "ConstraintError"
                  ELSE IF status = "resolved"
                       THEN [i \in 1..Len(reqs) |-> reqs[i].arg.id]
                  ELSE Undefined
    IN  [call |-> [c EXCEPT !.outcomes = outs, !.status = status, !.result = result],
         more |-> << >>]

\* export(): the code after each `await this.getAll(...)`
SettleExport(c, value, t) ==
    LET acc == Append(c.acc, value)
    IN  IF c.step < 3
        THEN [call |-> [c EXCEPT !.acc = acc, !.step = c.step + 1],
              more |-> <<Request("getAll", StoreNames[c.step + 1], NoIndex, 1)>>]
        ELSE [call |-> [c EXCEPT !.acc = acc, !.status = "resolved",
                                 !.result = Stringify([doctors |-> acc[1],
                                                       patients |-> acc[2],
                                                       appointments |-> acc[3]], t)],
              more |-> << >>]

\* variant: import that clears the doctors store only
SettleImportOneClear(c, n, ok) ==
    LET adds == BatchRequests("add", Parse(c.arg))
    IN  IF c.step < 3
        THEN [call |-> IF adds = << >>
                       THEN [c EXCEPT !.step = 4, !.status = "resolved", !.result = << >>]
                       ELSE [c EXCEPT !.step = 4,
                                      !.outcomes = [i \in 1..Len(adds) |-> "pending"]],
              more |-> adds]
        ELSE SettleAll(c, adds, n, ok)

\* import(): the code after each `await this.clear(...)`, then Promise.all
SettleImport(c, n, ok) ==
    LET adds == BatchRequests("add", Parse(c.arg))
    IN  IF c.step < 3
        THEN [call |-> [c EXCEPT !.step = c.step + 1],
              more |-> <<Request("clear", StoreNames[c.step + 1], Undefined, 1)>>]
        ELSE IF c.step = 3
        THEN [call |-> IF adds = << >>
                       THEN [c EXCEPT !.step = 4, !.status = "resolved", !.result = << >>]
                       ELSE [c EXCEPT !.step = 4,
                                      !.outcomes = [i \in 1..Len(adds) |-> "pending"]],
              more |-> adds]
        ELSE SettleAll(c, adds, n, ok)

\* the effect of a request's event on the call that placed it
Settle(c, req, ok, value, t) ==
    CASE c.kind = "saveAll" -> SettleAll(c, BatchRequests("put", c.arg), req.n, ok)
      [] c.kind = "export" -> SettleExport(c, value, t)
      [] c.kind = "import" -> SettleImport(c, req.n, ok)
      [] OTHER -> SettleSingle(c, ok, value)

\* variant: a request of a call that has been rejected is dropped, not applied
ExecDropAfterReject(i, t) ==
    LET req == queue[i]
        out == Outcome(req)
        st == Settle(call, req, out.ok, out.value, t)
    IN  /\ Ready(i)
        /\ stores' = IF call.status = "rejected"
                     THEN stores
                     ELSE [stores EXCEPT ![req.store] = out.content]
        /\ queue' = Remove(queue, i) \o st.more
        /\ call' = st.call
        /\ last' = [op |-> req.op, store |-> req.store, arg |-> req.arg,
                    n |-> req.n, ok |-> out.ok,
                    value |-> out.value, before |-> stores]
        /\ IF call.kind = "export" /\ st.call.status = "resolved"
           THEN /\ exported' = st.call.result
                /\ exportedFrom' = stores
           ELSE UNCHANGED <<exported, exportedFrom>>
        /\ UNCHANGED <<db, opening, shellVars>>

\* variant: a failed request aborts the requests placed after it
ExecAbortRest(i, t) ==
    LET req == queue[i]
        out == Outcome(req)
        st == Settle(call, req, out.ok, out.value, t)
    IN  /\ Ready(i)
        /\ stores' = [stores EXCEPT ![req.store] = out.content]
        /\ queue' = IF out.ok THEN Remove(queue, i) \o st.more ELSE << >>
        /\ call' = st.call
        /\ last' = [op |-> req.op, store |-> req.store, arg |-> req.arg,
                    n |-> req.n, ok |-> out.ok,
                    value |-> out.value, before |-> stores]
        /\ UNCHANGED <<db, opening, exported, exportedFrom, shellVars>>

\* variant: a failed add of an import empties the stores again
ExecUndoOnError(i, t) ==
    LET req == queue[i]
        out == Outcome(req)
        st == Settle(call, req, out.ok, out.value, t)
    IN  /\ Ready(i)
        /\ stores' = IF ~out.ok /\ call.kind = "import"
                     THEN EmptyStores
                     ELSE [stores EXCEPT ![req.store] = out.content]
        /\ queue' = Remove(queue, i) \o st.more
        /\ call' = st.call
        /\ last' = [op |-> req.op, store |-> req.store, arg |-> req.arg,
                    n |-> req.n, ok |-> out.ok,
                    value |-> out.value, before |-> stores]
        /\ IF call.kind = "export" /\ st.call.status = "resolved"
           THEN /\ exported' = st.call.result
                /\ exportedFrom' = stores
           ELSE UNCHANGED <<exported, exportedFrom>>
        /\ UNCHANGED <<db, opening, shellVars>>

\* variant: a delete of a doctor also deletes the appointments that refer to it
ExecCascade(i, t) ==
    LET req == queue[i]
        out == Outcome(req)
        st == Settle(call, req, out.ok, out.value, t)
    IN  /\ Ready(i)
        /\ stores' = IF req.op = "delete" /\ req.store = "doctors"
                     THEN [stores EXCEPT
                              !["doctors"] = out.content,
                              !["appointments"] =
                                  {a \in stores["appointments"] : a.doctorId # req.arg}]
                     ELSE [stores EXCEPT ![req.store] = out.content]
        /\ queue' = Remove(queue, i) \o st.more
        /\ call' = st.call
        /\ last' = [op |-> req.op, store |-> req.store, arg |-> req.arg,
                    n |-> req.n, ok |-> out.ok,
                    value |-> out.value, before |-> stores]
        /\ IF call.kind = "export" /\ st.call.status = "resolved"
           THEN /\ exported' = st.call.result
                /\ exportedFrom' = stores
           ELSE UNCHANGED <<exported, exportedFrom>>
        /\ UNCHANGED <<db, opening, shellVars>>

Exec(i, t) ==
    LET req == queue[i]
        out == Outcome(req)
        st == Settle(call, req, out.ok, out.value, t)
    IN  /\ Ready(i)
        /\ stores' = [stores EXCEPT ![req.store] = out.content]
        /\ queue' = Remove(queue, i) \o st.more
        /\ call' = st.call
        /\ last' = [op |-> req.op, store |-> req.store, arg |-> req.arg,
                    n |-> req.n, ok |-> out.ok,
                    value |-> out.value, before |-> stores]
        /\ IF call.kind = "export" /\ st.call.status = "resolved"
           THEN /\ exported' = st.call.result
                /\ exportedFrom' = stores
           ELSE UNCHANGED <<exported, exportedFrom>>
        /\ UNCHANGED <<db, opening, shellVars>>

ExecAdd == \E i \in 1..Len(queue) : queue[i].op = "add" /\ Exec(i, "t1")

ExecPut == \E i \in 1..Len(queue) : queue[i].op = "put" /\ Exec(i, "t1")

ExecDelete == \E i \in 1..Len(queue) : queue[i].op = "delete" /\ Exec(i, "t1")

ExecClear == \E i \in 1..Len(queue) : queue[i].op = "clear" /\ Exec(i, "t1")

ExecGet == \E i \in 1..Len(queue) : queue[i].op = "get" /\ Exec(i, "t1")

ExecGetAll ==
    \E i \in 1..Len(queue) : \E t \in Timestamps :
        queue[i].op = "getAll" /\ Exec(i, t)

\* the caller's code after `await`: the promise of the call has settled and the
\* requests the call placed have all been executed
Return ==
    /\ call.status \in {"resolved", "rejected"}
    /\ queue = << >>
    /\ call' = NoCall
    /\ last' = NoRequest
    /\ UNCHANGED <<db, opening, stores, queue, exported, exportedFrom, shellVars>>

\* the caller drops the bundle it holds
Discard ==
    /\ Idle
    /\ exported # NoText
    /\ exported' = NoText
    /\ exportedFrom' = EmptyStores
    /\ UNCHANGED <<db, opening, stores, queue, call, last, shellVars>>

Next ==
    \/ OpenSuccess
    \/ OpenError
    \/ Add
    \/ Get
    \/ GetAll
    \/ Update
    \/ Delete
    \/ Clear
    \/ SaveAll
    \/ Export
    \/ Import
    \/ ExecAdd
    \/ ExecPut
    \/ ExecDelete
    \/ ExecClear
    \/ ExecGet
    \/ ExecGetAll
    \/ Return
    \/ Discard

Spec == Init /\ [][Next]_vars

(***************************************************************************)
(* The application shell (assets/scripts/app.js, class ClinicProApp).      *)
(* The shell reads the three stores through its services and writes them   *)
(* with saveAll.  Its requests wait in `queue` with the other requests;    *)
(* each carries the shell operation that placed it (`by`) and, for a       *)
(* saveData(), the slot of the call (`n`).  The service classes, the       *)
(* modules that edit the in-memory lists and the page's markup are not     *)
(* part of the sources: a service's getAll() is taken to call the          *)
(* wrapper's getAll of its store at some time after the shell called it,   *)
(* and a module's edit is taken to change a list and to re-render the      *)
(* summaries.                                                              *)
(***************************************************************************)
ShellRequest(op, s, arg, by, n) ==
    [op |-> op, store |-> s, arg |-> arg, n |-> n, by |-> by]

\* the records a form of the page creates
FormRecords(s) ==
    CASE s = "doctors" -> {[id |-> 1, isActive |-> FALSE], [id |-> 2, isActive |-> TRUE]}
      [] s = "patients" -> {[id |-> 1, phone |-> "p1"], [id |-> 2, phone |-> "p1"]}
      [] s = "appointments" ->
            {[id |-> 1, date |-> "d1", status |-> "pending", doctorId |-> 1,
              patientId |-> 1]}

\* list.filter(x => x is one of S).length
Count(list, S) == Cardinality({i \in 1..Len(list) : list[i] \in S})

\* d => d.isActive
IsActive(list) == {d \in Range(list) : d.isActive}

\* a => a.date === today
IsOnDay(list, day) == {a \in Range(list) : a.date = day}

\* a => a.status === 'pending'
IsPending(list) == {a \in Range(list) : a.status = "pending"}

\* n => !n.read, for the read flags of the notifications
IsUnread(list) == {read \in Range(list) : ~read}

\* updateStats(): the counters written from this.state on calendar day `day`
UpdateStats(st, day) ==
    [rendered |-> TRUE,
     badged |-> TRUE,
     activeDoctors |-> Count(st.doctors, IsActive(st.doctors)),
     patients |-> Len(st.patients),
     appointments |-> Len(st.appointments),
     todayAppointments |-> Count(st.appointments, IsOnDay(st.appointments, day)),
     pending |-> Count(st.appointments, IsPending(st.appointments)),
     unread |-> Count(st.notifications, IsUnread(st.notifications))]

\* updateNotificationBadge(): the unread counter alone
UpdateNotificationBadge(st, sh) ==
    [sh EXCEPT !.badged = TRUE, !.unread = Count(st.notifications, IsUnread(st.notifications))]

\* loadNotifications(): two notifications, the first unread, the second read
MockNotifications == <<FALSE, TRUE>>

\* the page has not been unloaded
Alive == shell.pc # "unloaded"

\* the request that the getAll() of the service of store s places: the
\* wrapper's getAll(s), with no index
ServiceGetAll(s) == ShellRequest("getAll", s, NoIndex, "load", 0)

\* a service's getAll() calls the wrapper's getAll of the store that
\* loadAppData() reads next; with this.db = null the call is rejected, the
\* catch of loadAppData() logs and rethrows, and then either the catch of
\* init() logs, shows the error toast and hides the overlay, or
\* refreshDashboard() is rejected with nobody to catch it
LoadCall ==
    /\ Alive
    /\ load.by # "none"
    /\ ~load.placed
    /\ IF db = "open"
       THEN /\ queue' = Append(queue, ServiceGetAll(StoreNames[load.step]))
            /\ load' = [load EXCEPT !.placed = TRUE]
            /\ ev' = Event("getAll", load.by, db, FALSE, "none", FALSE)
            /\ shell' = shell
       ELSE /\ queue' = queue
            /\ load' = NoLoad
            /\ IF load.by = "init"
               THEN /\ ev' = Event("loadFailed", load.by, db, TRUE, "initError", FALSE)
                    /\ shell' = [shell EXCEPT !.pc = "failed", !.overlay = FALSE]
               ELSE /\ ev' = Event("loadFailed", load.by, db, TRUE, "none", FALSE)
                    /\ shell' = shell
    /\ last' = NoRequest
    /\ UNCHANGED <<db, opening, stores, call, exported, exportedFrom,
                   state, shown, saves, today>>

\* the getAll of loadAppData() completes: its result is assigned to the list;
\* after the third one the notifications are loaded and the summaries are
\* rendered, and then init() registers the listeners and starts the timer
\* that hides the overlay, or refreshDashboard() hides the overlay and shows
\* its toast
ExecLoad ==
    \E i \in 1..Len(queue) :
        LET req == queue[i]
            out == Outcome(req)
            st1 == [state EXCEPT ![req.store] = out.value]
            st2 == [st1 EXCEPT !.notifications = MockNotifications]
        IN  /\ req.by = "load"
            /\ Ready(i)
            /\ queue' = Remove(queue, i)
            /\ last' = [op |-> req.op, store |-> req.store, arg |-> req.arg,
                        n |-> req.n, ok |-> out.ok, value |-> out.value,
                        before |-> stores]
            /\ IF load.step < Len(StoreNames)
               THEN /\ state' = st1
                    /\ load' = [load EXCEPT !.step = load.step + 1, !.placed = FALSE]
                    /\ ev' = Event("read", load.by, "none", FALSE, "none", FALSE)
                    /\ UNCHANGED <<shown, shell>>
               ELSE /\ state' = st2
                    /\ shown' = UpdateStats(st2, today)
                    /\ load' = NoLoad
                    /\ IF load.by = "init"
                       THEN /\ shell' = [shell EXCEPT !.pc = "ready", !.listeners = TRUE,
                                                      !.timer = TRUE]
                            /\ ev' = Event("loadDone", load.by, "none", FALSE, "none", FALSE)
                       ELSE /\ shell' = [shell EXCEPT !.overlay = FALSE]
                            /\ ev' = Event("loadDone", load.by, "none", FALSE,
                                           "refreshed", FALSE)
            /\ UNCHANGED <<db, opening, stores, call, exported, exportedFrom,
                           saves, today>>

\* the timer that init() starts after its load: hideLoading and the toast
TimerFires ==
    /\ Alive
    /\ shell.timer
    /\ shell' = [shell EXCEPT !.timer = FALSE, !.overlay = FALSE]
    /\ ev' = Event("timer", "init", "none", FALSE, "loaded", FALSE)
    /\ last' = NoRequest
    /\ UNCHANGED <<db, opening, stores, queue, call, exported, exportedFrom,
                   state, shown, load, saves, today>>

\* refreshDashboard(), up to its await; the user asks for it when no load is
\* in progress
RefreshDashboard ==
    /\ Alive
    /\ load.by = "none"
    /\ shell' = [shell EXCEPT !.overlay = TRUE]
    /\ load' = [by |-> "refresh", step |-> 1, placed |-> FALSE]
    /\ ev' = NoEvent
    /\ last' = NoRequest
    /\ UNCHANGED <<db, opening, stores, queue, call, exported, exportedFrom,
                   state, shown, saves, today>>

\* the lowest slot that holds no saveData()
FreeSlot == CHOOSE k \in 1..MaxSaves :
                /\ saves[k] = NoSave
                /\ \A j \in 1..(k - 1) : saves[j] # NoSave

\* the requests of q that a shell operation of kind `by` in slot n waits for
\* go on without it
Orphaned(q, by, n) ==
    [i \in 1..Len(q) |-> IF q[i].by = by /\ q[i].n = n
                          THEN [q[i] EXCEPT !.by = "orphan", !.n = 0]
                          ELSE q[i]]

\* all requests of q go on with no shell operation that waits for them
AllOrphaned(q) == [i \in 1..Len(q) |-> [q[i] EXCEPT !.by = "orphan", !.n = 0]]

\* the user saves when fewer than MaxSaves calls of saveData() are in progress
\* and the updates of the calls that were rejected have completed
CanSave ==
    /\ \E j \in 1..MaxSaves : saves[j] = NoSave
    /\ \A j \in 1..Len(queue) : queue[j].by # "orphan"

\* saveData(), up to its await: saveAll places one update per record of the
\* three lists.  With no record, Promise.all([]) is resolved and saveData()
\* goes on to write the backup; with this.db = null the first update throws and
\* the catch of saveData() logs.  `toast` is the toast the handler shows after
\* it has called saveData().
SaveData(by, toast) ==
    LET data == [doctors |-> state.doctors, patients |-> state.patients,
                 appointments |-> state.appointments]
        reqs == BatchRequests("put", data)
        k == FreeSlot
    IN  /\ CanSave
        /\ IF reqs = << >>
           THEN /\ ev' = [Event("saveResolved", by, "none", FALSE, toast, TRUE)
                              EXCEPT !.data = data]
                /\ UNCHANGED <<queue, saves>>
           ELSE IF db = "open"
           THEN /\ queue' = queue \o [i \in 1..Len(reqs) |->
                        ShellRequest("put", reqs[i].store, reqs[i].arg, "save", k)]
                /\ saves' = [saves EXCEPT ![k] = [left |-> Len(reqs), by |-> by, data |-> data]]
                /\ ev' = Event("saveAll", by, db, FALSE, toast, FALSE)
           ELSE /\ ev' = Event("saveRejected", by, db, TRUE, toast, FALSE)
                /\ UNCHANGED <<queue, saves>>

\* handleKeyboardShortcuts, Ctrl/Cmd+S: saveData() is called and not awaited,
\* and the success toast is shown
KeyboardSave ==
    /\ Alive
    /\ shell.listeners
    /\ SaveData("key", "saved")
    /\ last' = NoRequest
    /\ UNCHANGED <<db, opening, stores, call, exported, exportedFrom,
                   state, shown, shell, load, today>>

\* handleBeforeUnload: saveData() is called and not awaited, hasUnsavedChanges()
\* is false, and the page is unloaded: no continuation of the shell runs any
\* more, and the requests in flight go on without it
BeforeUnload ==
    /\ Alive
    /\ shell.listeners
    /\ CanSave
    /\ LET data == [doctors |-> state.doctors, patients |-> state.patients,
                    appointments |-> state.appointments]
           reqs == BatchRequests("put", data)
       IN  /\ IF reqs = << >>
              THEN /\ ev' = [Event("saveResolved", "unload", "none", FALSE, "none", TRUE)
                                 EXCEPT !.data = data]
                   /\ queue' = AllOrphaned(queue)
              ELSE IF db = "open"
              THEN /\ ev' = Event("saveAll", "unload", db, FALSE, "none", FALSE)
                   /\ queue' = AllOrphaned(queue) \o [i \in 1..Len(reqs) |->
                        ShellRequest("put", reqs[i].store, reqs[i].arg, "orphan", 0)]
              ELSE /\ ev' = Event("saveRejected", "unload", db, TRUE, "none", FALSE)
                   /\ queue' = AllOrphaned(queue)
    /\ saves' = [k \in 1..MaxSaves |-> NoSave]
    /\ load' = NoLoad
    /\ shell' = [shell EXCEPT !.pc = "unloaded", !.listeners = FALSE, !.timer = FALSE]
    /\ last' = NoRequest
    /\ UNCHANGED <<db, opening, stores, call, exported, exportedFrom,
                   state, shown, today>>

\* an update of a saveData() completes.  When it was the last one and none
\* failed, Promise.all is resolved and saveData() writes the backup to
\* localStorage; when it fails, Promise.all is rejected, the catch of
\* saveData() logs, and the updates that remain go on
ExecSave ==
    \E i \in 1..Len(queue) :
        LET req == queue[i]
            out == Outcome(req)
            sv == saves[req.n]
        IN  /\ req.by = "save"
            /\ Ready(i)
            /\ stores' = [stores EXCEPT ![req.store] = out.content]
            /\ last' = [op |-> req.op, store |-> req.store, arg |-> req.arg,
                        n |-> req.n, ok |-> out.ok, value |-> out.value,
                        before |-> stores]
            /\ IF ~out.ok
               THEN /\ queue' = Orphaned(Remove(queue, i), "save", req.n)
                    /\ saves' = [saves EXCEPT ![req.n] = NoSave]
                    /\ ev' = Event("saveRejected", sv.by, "none", TRUE, "none", FALSE)
               ELSE IF sv.left = 1
               THEN /\ queue' = Remove(queue, i)
                    /\ saves' = [saves EXCEPT ![req.n] = NoSave]
                    /\ ev' = [Event("saveResolved", sv.by, "none", FALSE, "none", TRUE)
                                  EXCEPT !.data = sv.data]
               ELSE /\ queue' = Remove(queue, i)
                    /\ saves' = [saves EXCEPT ![req.n].left = sv.left - 1]
                    /\ ev' = NoEvent
            /\ UNCHANGED <<db, opening, call, exported, exportedFrom,
                           state, shown, shell, load, today>>

\* a request completes that no shell operation waits for
ExecOrphan ==
    \E i \in 1..Len(queue) :
        LET req == queue[i]
            out == Outcome(req)
        IN  /\ req.by = "orphan"
            /\ Ready(i)
            /\ stores' = [stores EXCEPT ![req.store] = out.content]
            /\ queue' = Remove(queue, i)
            /\ last' = [op |-> req.op, store |-> req.store, arg |-> req.arg,
                        n |-> req.n, ok |-> out.ok, value |-> out.value,
                        before |-> stores]
            /\ ev' = NoEvent
            /\ UNCHANGED <<db, opening, call, exported, exportedFrom,
                           state, shown, shell, load, saves, today>>

\* the browser ends the requests of a page that has been unloaded
Teardown ==
    /\ ~Alive
    /\ queue # << >>
    /\ queue' = << >>
    /\ ev' = NoEvent
    /\ last' = NoRequest
    /\ UNCHANGED <<db, opening, stores, call, exported, exportedFrom,
                   state, shown, shell, load, saves, today>>

\* the user edits the lists while the overlay does not cover the page and no
\* request is in flight
CanEdit == ~shell.overlay /\ queue = << >>

\* a form is submitted: the new record, whose id is new to the list, is
\* appended to the in-memory list and the summaries are rendered
CreateRecord ==
    /\ Alive
    /\ CanEdit
    /\ \E s \in Stores : \E r \in FormRecords(s) :
           /\ \A i \in 1..Len(state[s]) : state[s][i].id # r.id
           /\ state' = [state EXCEPT ![s] = Append(state[s], r)]
    /\ shown' = UpdateStats(state', today)
    /\ ev' = NoEvent
    /\ last' = NoRequest
    /\ UNCHANGED <<db, opening, stores, queue, call, exported, exportedFrom,
                   shell, load, saves, today>>

\* a record is dropped from its in-memory list and the summaries are rendered
DropRecord ==
    /\ Alive
    /\ CanEdit
    /\ \E s \in Stores : \E i \in 1..Len(state[s]) :
           state' = [state EXCEPT ![s] = Remove(state[s], i)]
    /\ shown' = UpdateStats(state', today)
    /\ ev' = NoEvent
    /\ last' = NoRequest
    /\ UNCHANGED <<db, opening, stores, queue, call, exported, exportedFrom,
                   shell, load, saves, today>>

\* checkNewNotifications(), every 30 seconds: loadNewNotifications() yields one
\* unread notification or none; a new one is put in front, the badge is
\* updated and a toast is shown
CheckNewNotifications ==
    /\ Alive
    /\ \E shouldAdd \in BOOLEAN :
           IF shouldAdd
           THEN /\ Len(state.notifications) < MaxNotifications
                /\ state' = [state EXCEPT !.notifications = <<FALSE>> \o @]
                /\ shown' = UpdateNotificationBadge(state', shown)
                /\ ev' = Event("check", "timer", "none", FALSE, "reminder", FALSE)
           ELSE /\ ev' = NoEvent
                /\ UNCHANGED <<state, shown>>
    /\ last' = NoRequest
    /\ UNCHANGED <<db, opening, stores, queue, call, exported, exportedFrom,
                   shell, load, saves, today>>

\* markAllAsRead()
MarkAllAsRead ==
    /\ Alive
    /\ state' = [state EXCEPT !.notifications =
                     [i \in 1..Len(state.notifications) |-> TRUE]]
    /\ shown' = UpdateNotificationBadge(state', shown)
    /\ ev' = Event("markAllAsRead", "user", "none", FALSE, "allRead", FALSE)
    /\ last' = NoRequest
    /\ UNCHANGED <<db, opening, stores, queue, call, exported, exportedFrom,
                   shell, load, saves, today>>

\* midnight: `new Date()` yields the next calendar day
DayChange ==
    /\ Alive
    /\ today = "d1"
    /\ today' = "d2"
    /\ ev' = NoEvent
    /\ last' = NoRequest
    /\ UNCHANGED <<db, opening, stores, queue, call, exported, exportedFrom,
                   state, shown, shell, load, saves>>

ShellNext ==
    \/ OpenSuccess
    \/ OpenError
    \/ LoadCall
    \/ ExecLoad
    \/ TimerFires
    \/ RefreshDashboard
    \/ KeyboardSave
    \/ BeforeUnload
    \/ ExecSave
    \/ ExecOrphan
    \/ Teardown
    \/ CreateRecord
    \/ DropRecord

\* the shell with its loads, its saves and the edits of the in-memory lists
SpecShell == Init /\ [][ShellNext]_vars

\* the databases that earlier runs of the page left behind
SeededStores ==
    {EmptyStores,
     [doctors |-> {[id |-> 1, isActive |-> TRUE], [id |-> 2, isActive |-> FALSE]},
      patients |-> {[id |-> 1, phone |-> "p1"]},
      appointments |-> {[id |-> 1, date |-> "d1", status |-> "pending",
                         doctorId |-> 1, patientId |-> 1]}],
     [doctors |-> {[id |-> 2, isActive |-> TRUE]},
      patients |-> {[id |-> 1, phone |-> Undefined], [id |-> 2, phone |-> "p2"]},
      appointments |-> {[id |-> 1, date |-> "d2", status |-> "confirmed",
                         doctorId |-> 2, patientId |-> 2]}]}

\* a later run of the page
SummaryInit ==
    /\ stores \in SeededStores
    /\ Constructed

SummaryNext ==
    \/ OpenSuccess
    \/ OpenError
    \/ LoadCall
    \/ ExecLoad
    \/ TimerFires
    \/ RefreshDashboard
    \/ CheckNewNotifications
    \/ MarkAllAsRead
    \/ DayChange

\* the shell with its loads, its notifications and the clock
SpecSummary == SummaryInit /\ [][SummaryNext]_vars

(***************************************************************************)
(* Properties of the storage wrapper.                                      *)
(***************************************************************************)
\* the promise of the request executed last was rejected
LastRejected ==
    IF call.kind \in {"saveAll", "import"}
    THEN last.op \in {"add", "put"} /\ call.outcomes[last.n] = "err"
    ELSE call.status = "rejected"

\* the promise of the request executed last was resolved
LastResolved ==
    IF call.kind \in {"saveAll", "import"}
    THEN last.op \in {"add", "put"} => call.outcomes[last.n] = "ok"
    ELSE call.status = "resolved"

\* C1: an add of a record whose id is already stored in the collection is
\* rejected, and leaves the collection (and the other two) as they were
C1_AddDuplicateIdFails ==
    (last.op = "add" /\ HasKey(last.before[last.store], last.arg.id))
        => (~last.ok /\ LastRejected /\ stores = last.before)

C1_Witness ==
    /\ call.kind = "add"
    /\ last.op = "add"
    /\ HasKey(last.before[last.store], last.arg.id)
    /\ ~IndexConflict(last.store, last.before[last.store], last.arg)
    /\ call.status = "rejected"

\* C2 as stated: every update succeeds, and afterwards the collection holds
\* exactly one record with the item's id, equal to the item
C2_UpdateUnconditional ==
    last.op = "put"
        => /\ last.ok
           /\ LastResolved
           /\ {r \in stores[last.store] : r.id = last.arg.id} = {last.arg}

\* C2 amended: an update is rejected, and changes nothing, exactly when the
\* store has a unique index in which another record (one with a different id)
\* already holds the item's key, that is, a patient with the same phone;
\* every other update succeeds, afterwards the collection holds exactly one
\* record with the item's id, equal to the item, and its other records are
\* the ones it held before
C2_UpdateUnlessIndexConflict ==
    last.op = "put"
        => IF IndexConflict(last.store, last.before[last.store], last.arg)
           THEN ~last.ok /\ LastRejected /\ stores = last.before
           ELSE /\ last.ok
                /\ LastResolved
                /\ {r \in stores[last.store] : r.id = last.arg.id} = {last.arg}
                /\ {r \in stores[last.store] : r.id # last.arg.id}
                      = {r \in last.before[last.store] : r.id # last.arg.id}
                /\ \A s \in Stores \ {last.store} : stores[s] = last.before[s]

C2_Witness ==
    /\ call.kind = "update"
    /\ call.status = "resolved"
    /\ last.op = "put"
    /\ HasKey(last.before[last.store], last.arg.id)
    /\ last.arg \notin last.before[last.store]
    /\ Cardinality(stores[last.store]) = 2

\* C3: an add of a patient whose id is new and whose phone number another
\* stored patient already has is rejected, and leaves the patients unchanged
C3_AddDuplicatePhoneFails ==
    (/\ last.op = "add"
     /\ last.store = "patients"
     /\ ~HasKey(last.before["patients"], last.arg.id)
     /\ last.arg.phone # Undefined
     /\ \E r \in last.before["patients"] : r.phone = last.arg.phone)
        => (~last.ok /\ LastRejected /\ stores = last.before)

C3_Witness ==
    /\ call.kind = "add"
    /\ call.status = "rejected"
    /\ last.op = "add"
    /\ last.store = "patients"
    /\ ~HasKey(last.before["patients"], last.arg.id)
    /\ \E r \in last.before["patients"] : r.phone = last.arg.phone

\* C4: no two distinct stored patients have the same phone number
C4_PhonesUnique ==
    \A r, q \in stores["patients"] :
        (r # q /\ r.phone # Undefined) => r.phone # q.phone

C4_Witness ==
    /\ last.op = "put"
    /\ last.store = "patients"
    /\ ~last.ok
    /\ call.kind = "saveAll"
    /\ Cardinality(stores["patients"]) = 2
    /\ \A r \in stores["patients"] : r.phone # Undefined

\* C5: an import, on an empty database, of the bundle an export produced is
\* not rejected, and once it has resolved the three collections hold exactly
\* the records they held when the export was made
C5_ExportImportRoundTrip ==
    (/\ call.kind = "import"
     /\ exported # NoText
     /\ call.arg = exported
     /\ call.wasEmpty)
        => /\ call.status # "rejected"
           /\ call.status = "resolved" => stores = exportedFrom

C5_Witness ==
    /\ call.kind = "import"
    /\ exported # NoText
    /\ call.arg = exported
    /\ call.wasEmpty
    /\ call.status = "resolved"
    /\ stores = exportedFrom
    /\ Cardinality(stores["doctors"]) = 2
    /\ Cardinality(stores["patients"]) = 2
    /\ \E r \in stores["patients"] : r.phone = Undefined
    /\ stores["appointments"] # {}

\* C6: a getAll without an index returns the records stored in the
\* collection, each once, in an order their ids alone determine (so the order
\* they were added in does not show), and changes no collection
C6_GetAllExact ==
    (last.op = "getAll" /\ last.arg = NoIndex)
        => /\ last.ok
           /\ Range(last.value) = last.before[last.store]
           /\ Len(last.value) = Cardinality(last.before[last.store])
           /\ \A i, j \in 1..Len(last.value) :
                  i < j => last.value[i].id < last.value[j].id
           /\ stores = last.before
           /\ call.kind = "getAll" =>
                  call.status = "resolved" /\ call.result = last.value

C6_Witness ==
    /\ call.kind = "getAll"
    /\ call.status = "resolved"
    /\ last.op = "getAll"
    /\ last.arg = NoIndex
    /\ last.store = "patients"
    /\ Len(call.result) = 2
    /\ call.result[1].phone = Undefined

\* C7: a delete succeeds whether or not a record has the key; afterwards no
\* record of the collection has the key and every other record is as before,
\* so a delete of an absent key changes nothing
C7_DeleteByKey ==
    last.op = "delete"
        => /\ last.ok
           /\ call.status = "resolved"
           /\ ~HasKey(stores[last.store], last.arg)
           /\ stores[last.store]
                 = {r \in last.before[last.store] : r.id # last.arg}
           /\ \A s \in Stores \ {last.store} : stores[s] = last.before[s]
           /\ ~HasKey(last.before[last.store], last.arg) => stores = last.before

C7_Witness ==
    /\ last.op = "delete"
    /\ call.status = "resolved"
    /\ HasKey(last.before[last.store], last.arg)
    /\ stores[last.store] # {}

\* C8: a clear leaves its collection empty, so that a getAll returns the empty
\* list, and leaves the other two collections as they were
C8_ClearEmptiesOneStore ==
    last.op = "clear"
        => /\ last.ok
           /\ stores[last.store] = {}
           /\ StoreGetAll(last.store, stores[last.store], NoIndex) = << >>
           /\ \A s \in Stores \ {last.store} : stores[s] = last.before[s]
           /\ call.kind = "clear" => call.status = "resolved"

C8_Witness ==
    /\ call.kind = "clear"
    /\ call.status = "resolved"
    /\ last.op = "clear"
    /\ Cardinality(last.before[last.store]) = 2
    /\ \A s \in Stores \ {last.store} : stores[s] # {}

\* a saveAll that has settled and whose requests have all been executed
SaveAllDone ==
    /\ call.kind = "saveAll"
    /\ call.status # "pending"
    /\ queue = << >>

\* C9 as stated: saveAll rejects exactly when one of its updates fails, no
\* update is skipped or undone because another failed, and every record whose
\* update succeeded (all of them, when none fails) is stored as given
C9_SaveAllStoresEveryRecord ==
    SaveAllDone =>
        LET reqs == BatchRequests("put", call.arg)
        IN  /\ \A n \in 1..Len(reqs) : call.outcomes[n] \in {"ok", "err"}
            /\ call.status = "rejected" <=> \E n \in 1..Len(reqs) : call.outcomes[n] = "err"
            /\ \A n \in 1..Len(reqs) :
                   call.outcomes[n] = "ok" => reqs[n].arg \in stores[reqs[n].store]

\* C9 amended: as stated, except that of several records of one array with the
\* same id, whose updates succeeded, the last one is the one stored
C9_SaveAllStoresLastPerId ==
    SaveAllDone =>
        LET reqs == BatchRequests("put", call.arg)
        IN  /\ \A n \in 1..Len(reqs) : call.outcomes[n] \in {"ok", "err"}
            /\ call.status = "rejected" <=> \E n \in 1..Len(reqs) : call.outcomes[n] = "err"
            /\ \A n \in 1..Len(reqs) :
                   (/\ call.outcomes[n] = "ok"
                    /\ ~\E m \in (n + 1)..Len(reqs) :
                           /\ reqs[m].store = reqs[n].store
                           /\ reqs[m].arg.id = reqs[n].arg.id
                           /\ call.outcomes[m] = "ok")
                       => reqs[n].arg \in stores[reqs[n].store]

C9_Witness ==
    /\ SaveAllDone
    /\ call.status = "rejected"
    /\ Len(call.outcomes) = 2
    /\ call.outcomes[1] = "err"
    /\ call.outcomes[2] = "ok"
    /\ last.op = "put"
    /\ last.n = 2
    /\ last.arg \in stores[last.store]
    /\ last.arg \notin last.before[last.store]

\* C10: once an import has resolved, each collection holds exactly the
\* records of the bundle's array for it, whatever it held before
C10_ImportReplacesContents ==
    (call.kind = "import" /\ call.status = "resolved")
        => \A s \in Stores : stores[s] = Range(Parse(call.arg)[s])

C10_Witness ==
    /\ call.kind = "import"
    /\ call.status = "resolved"
    /\ call.stale
    /\ Len(call.outcomes) = 2

\* an import whose adds were placed, one of them failed, and all were executed
ImportFailedDone ==
    /\ call.kind = "import"
    /\ call.status = "rejected"
    /\ call.step = 4
    /\ queue = << >>

\* C11: a failed import is not rolled back: once the adds it placed have all
\* been executed, each collection holds exactly the records of the bundle
\* whose add succeeded (the records stored before the import are gone, the
\* records whose add failed are missing); the witness is a failed import after
\* which the collections equal neither what they held before nor the bundle
C11_FailedImportLeavesPartialState ==
    ImportFailedDone =>
        LET adds == BatchRequests("add", Parse(call.arg))
        IN  /\ \A n \in 1..Len(adds) : call.outcomes[n] \in {"ok", "err"}
            /\ \E n \in 1..Len(adds) : call.outcomes[n] = "err"
            /\ \A s \in Stores :
                   stores[s] = {adds[n].arg : n \in {m \in 1..Len(adds) :
                                    adds[m].store = s /\ call.outcomes[m] = "ok"}}

\* the import found a stored record that the bundle lacks (call.stale), so the
\* collections, which hold bundle records only, differ from their contents
\* before the import; they differ from the bundle too
C11_Witness ==
    /\ ImportFailedDone
    /\ call.stale
    /\ \E s \in Stores : stores[s] # {}
    /\ \E s \in Stores : stores[s] # Range(Parse(call.arg)[s])

\* C12: every failure of a storage operation rejects a promise the caller
\* holds: the failure of the open request, and the failure of each request
\* placed by add, update, saveAll and import
C12_EveryFailureReported ==
    /\ (~opening /\ db = "null") => InitPromiseHeld
    /\ (last.op # "none" /\ ~last.ok) => LastRejected

\* C19: add, update, delete and clear change their own collection only: the
\* other two collections are as they were before the request, so the
\* appointments that refer to a deleted doctor or patient stay stored, and an
\* add of an appointment is decided by the appointments alone (it succeeds when
\* its id is new, whatever doctors and patients are stored)
C19_OperationsFramedToOneStore ==
    /\ last.op \in {"add", "put", "delete", "clear"}
          => \A s \in Stores \ {last.store} : stores[s] = last.before[s]
    /\ (/\ last.op = "add"
        /\ last.store = "appointments"
        /\ ~HasKey(last.before["appointments"], last.arg.id))
          => last.ok /\ last.arg \in stores["appointments"]

C19_Witness ==
    /\ last.op = "delete"
    /\ last.store = "doctors"
    /\ HasKey(last.before["doctors"], last.arg)
    /\ \E a \in stores["appointments"] : a.doctorId = last.arg
    /\ ~HasKey(stores["patients"], 1)
    /\ stores["appointments"] = last.before["appointments"]

(***************************************************************************)
(* The application shell.                                                  *)
(***************************************************************************)
\* C13: startup is ordered: the shell makes a wrapper call (the getAll of
\* loadAppData first of all) only when the wrapper has opened the database,
\* never while this.db is null
C13_NoCallBeforeOpen == ev.db # "null"

\* C14: the storage operations of the shell do not overlap: at most one read
\* of a load is in flight, and while a saveData is in flight no load and no
\* other saveData is in progress
C14_NoOverlap ==
    LET saving == {k \in 1..MaxSaves : saves[k] # NoSave}
    IN  /\ Cardinality({i \in 1..Len(queue) : queue[i].by = "load"}) <= 1
        /\ Cardinality(saving) <= 1
        /\ saving # {} => load.by = "none"

\* C15: every saveData writes the localStorage backup, whether its saveAll
\* was resolved or rejected
C15_BackupOnEverySave ==
    ev.kind \in {"saveResolved", "saveRejected"} => ev.backup

\* C16: a failed load (of init or of refreshDashboard) and a failed save are
\* logged and shown to the user as an error, and a save for which Ctrl/Cmd+S
\* showed the "saved" toast is not rejected
C16_FailureShown ==
    /\ ev.kind \in {"loadFailed", "saveRejected"} =>
           ev.logged /\ ev.toast = "initError"
    /\ ~(ev.kind = "saveRejected" /\ ev.by = "key")

\* C17: after the load of init() has failed the shell holds its in-memory
\* state as it was and its event listeners are registered
C17_ListenersAfterFailure ==
    shell.pc = "failed" =>
        /\ shell.listeners
        /\ \A s \in Stores : state[s] = << >>

\* no load is in progress (checkNewNotifications and markAllAsRead are steps)
Quiet == load.by = "none"

\* C18: when no operation of the shell is in progress, the counters that
\* updateStats has written equal the counts of the in-memory lists (today's
\* appointments counted for the calendar day of the clock), and the badge,
\* once written, equals the number of unread notifications
C18_SummariesMatchSnapshot ==
    /\ (Quiet /\ shown.rendered) => shown = UpdateStats(state, today)
    /\ (Quiet /\ shown.badged) =>
           shown.unread = UpdateNotificationBadge(state, shown).unread

RecordIds(S) == {r.id : r \in S}

\* C20: a request of add, update (put), get or getAll removes no record: every
\* id stored before it is stored after it, so the updates of saveData leave
\* the records in place that the in-memory lists lack; and a getAll of
\* loadAppData assigns to the in-memory list every record that is stored
C20_OnlyDeleteRemoves ==
    /\ last.op \in {"add", "put", "get", "getAll"} =>
           \A s \in Stores : RecordIds(last.before[s]) \subseteq RecordIds(stores[s])
    /\ ev.kind \in {"read", "loadDone"} =>
           /\ Range(state[last.store]) = stores[last.store]
           /\ state[last.store] = SortById(stores[last.store])

\* a saveData has completed its updates; its data lacked a stored record, the
\* in-memory list lacks it too, and the record is still stored
C20_Witness ==
    /\ ev.kind = "saveResolved"
    /\ last.op = "put"
    /\ \E s \in Stores : \E r \in stores[s] :
           /\ r.id \notin RecordIds(Range(ev.data[s]))
           /\ r.id \notin RecordIds(Range(state[s]))

\* C21: the overlay that init or refreshDashboard has shown is hidden again
\* after the load, whether the load succeeded or failed: when no load is in
\* progress the overlay is hidden or the timer of init() that hides it is
\* pending
C21_OverlayHiddenAfterLoad ==
    (Alive /\ load.by = "none") => (~shell.overlay \/ shell.timer)

\* saveAll or import has been rejected and a request it had placed has
\* succeeded after that
AppliedAfterRejected ==
    /\ call.kind \in {"saveAll", "import"}
    /\ call.status = "rejected"
    /\ last.op \in {"put", "add"}
    /\ last.ok

\* C22 as stated: a request of saveAll or import that is executed after the
\* promise of the call has settled changes no collection
C22_NoChangeAfterSettled ==
    AppliedAfterRejected => stores = last.before

\* C22: saveAll and import are resolved only when every request they placed
\* has been executed; when they are rejected, the requests they placed and
\* that are not yet executed stay in flight, and each is applied when it is
\* executed
C22_RejectedCallStillApplies ==
    call.kind \in {"saveAll", "import"} =>
        /\ call.status = "resolved" =>
               /\ queue = << >>
               /\ \A n \in 1..Len(call.outcomes) : call.outcomes[n] = "ok"
        /\ call.status = "rejected" =>
               {queue[i].n : i \in 1..Len(queue)} =
                   {n \in 1..Len(call.outcomes) : call.outcomes[n] = "pending"}
        /\ AppliedAfterRejected => last.arg \in stores[last.store]

C22_Witness ==
    /\ AppliedAfterRejected
    /\ stores # last.before

\* C23: import of a text that JSON.parse rejects is rejected in the call
\* itself: the step places no request (no clear), and the three collections
\* are as they were before the call
C23_UnparseableImportChangesNothing ==
    [][(/\ call.status = "idle"
        /\ call'.kind = "import"
        /\ ~IsParseable(call'.arg))
          => /\ call'.status = "rejected"
             /\ queue' = queue
             /\ queue' = << >>
             /\ stores' = stores]_vars

\* an import of an unparseable text has been rejected while records are stored
C23_Witness ==
    /\ call.kind = "import"
    /\ ~IsParseable(call.arg)
    /\ call.status = "rejected"
    /\ queue = << >>
    /\ \E s \in Stores : stores[s] # {}

====
